---------------------------- MODULE Spec2Model ----------------------------
(***************************************************************************)
(* Model of the text-mining pipeline of text_mining_hix.py: tokenize,      *)
(* extract_keywords_from_text and process_sheet.                           *)
(*                                                                         *)
(* A Python str is a sequence of one-character strings.  A cell or         *)
(* argument value is a record [isStr, chars]: isStr is what                *)
(* isinstance(v, str) answers, chars is the text of a str.                 *)
(*                                                                         *)
(* Three specifications share the variables:                               *)
(*   SpecTokenize  one call of tokenize(text)                              *)
(*   SpecExtract   one call of extract_keywords_from_text(...)             *)
(*   Spec          one call of process_sheet(...), one step per loop turn  *)
(***************************************************************************)
EXTENDS Integers, Sequences, FiniteSets, TLC

VARIABLES
    pc,                 \* position of the call being modelled
    text,               \* argument of tokenize / extract_keywords_from_text
    medical_keywords,   \* keyword list argument
    use_substring,      \* mode flag argument
    df,                 \* the loaded table: [columns, records]
    patient_id_column,  \* argument of process_sheet
    text_column,        \* argument of process_sheet
    i,                  \* process_sheet: index of the next record of df.iterrows()
    kws,                \* process_sheet: local kws (line 97)
    rows,               \* process_sheet: local rows
    all_words,          \* process_sheet: local all_words
    ret                 \* what the call returned or raised

vars == <<pc, text, medical_keywords, use_substring, df, patient_id_column,
          text_column, i, kws, rows, all_words, ret>>

---------------------------------------------------------------------------
(* Characters and the str methods the code uses *)

UpperLetters ==
    <<"A", "B", "C", "D", "E", "F", "G", "H", "I", "J", "K", "L", "M",
      "N", "O", "P", "Q", "R", "S", "T", "U", "V", "W", "X", "Y", "Z">>

LowerLetters ==
    <<"a", "b", "c", "d", "e", "f", "g", "h", "i", "j", "k", "l", "m",
      "n", "o", "p", "q", "r", "s", "t", "u", "v", "w", "x", "y", "z">>

Digits == {"0", "1", "2", "3", "4", "5", "6", "7", "8", "9"}

Range(s) == {s[n] : n \in 1..Len(s)}

Letters == Range(UpperLetters) \cup Range(LowerLetters)

\* str.isspace() for the characters of the model
Whitespace == {" ", "\t", "\n"}

\* the class \w of Python's re with re.UNICODE: alphanumerics and the underscore
\* (line 54)
IsWordChar(c) == c \in Letters \cup Digits \cup {"_"}

\* one character of str.lower()
LowerChar(c) ==
    IF \E n \in 1..Len(UpperLetters) : UpperLetters[n] = c
    THEN LowerLetters[CHOOSE n \in 1..Len(UpperLetters) : UpperLetters[n] = c]
    ELSE c

\* str.lower()
lower(s) == [n \in 1..Len(s) |-> LowerChar(s[n])]

RECURSIVE lstrip(_)
lstrip(s) ==
    IF s # <<>> /\ Head(s) \in Whitespace THEN lstrip(Tail(s)) ELSE s

RECURSIVE rstrip(_)
rstrip(s) ==
    IF s # <<>> /\ s[Len(s)] \in Whitespace
    THEN rstrip(SubSeq(s, 1, Len(s) - 1))
    ELSE s

\* str.strip()
strip(s) == rstrip(lstrip(s))

\* Python's `k in t` for two strs: k is a contiguous substring of t
StrContains(t, k) ==
    \E a \in 0..(Len(t) - Len(k)) : SubSeq(t, a + 1, a + Len(k)) = k

\* a str value and a value that is not a str (NaN of an empty cell)
Str(s) == [isStr |-> TRUE, chars |-> s]

NaN == [isStr |-> FALSE, chars |-> <<>>]

---------------------------------------------------------------------------
(* tokenize *)

\* the greedy match of \w+ that starts at position a ends at the last word
\* character of the run
RECURSIVE MatchEnd(_, _)
MatchEnd(s, a) ==
    IF a < Len(s) /\ IsWordChar(s[a + 1]) THEN MatchEnd(s, a + 1) ELSE a

\* re.findall(r"\w+", s): scan left to right, non-overlapping greedy matches
RECURSIVE findall_w(_, _)
findall_w(s, pos) ==
    IF pos > Len(s) THEN <<>>
    ELSE IF IsWordChar(s[pos])
         THEN LET e == MatchEnd(s, pos)
              IN  <<SubSeq(s, pos, e)>> \o findall_w(s, e + 1)
         ELSE findall_w(s, pos + 1)

tokenize(t) ==
    IF ~t.isStr THEN <<>> ELSE findall_w(lower(t.chars), 1)

---------------------------------------------------------------------------
(* extract_keywords_from_text *)

\* `if kw and kw.strip()`: a non-empty str that is not all whitespace
Truthy(kw) == kw # <<>> /\ strip(kw) # <<>>

\* line 70: [kw.strip().lower() for kw in medical_keywords if kw and kw.strip()]
RECURSIVE NormalizedKeywords(_)
NormalizedKeywords(keywords) ==
    IF keywords = <<>> THEN <<>>
    ELSE IF Truthy(Head(keywords))
         THEN <<lower(strip(Head(keywords)))>> \o NormalizedKeywords(Tail(keywords))
         ELSE NormalizedKeywords(Tail(keywords))

\* faulty variant of line 74 (sensitivity of C4): `in` against the tokens'
\* text instead of the token set
WholeWordMatches_BySubstring(ks, token_set) ==
    SelectSeq(ks, LAMBDA kw : \E t \in token_set : StrContains(t, kw))

\* line 74: [kw for kw in kws if kw in token_set]
WholeWordMatches(ks, token_set) ==
    SelectSeq(ks, LAMBDA kw : kw \in token_set)

\* faulty variant of lines 77-83 (sensitivity of C5): t.startswith(kw)
\* instead of kw in t
RECURSIVE SubstringMatches_ByPrefix(_, _)
SubstringMatches_ByPrefix(ks, token_set) ==
    IF ks = <<>> THEN <<>>
    ELSE (IF \E t \in token_set :
                Len(Head(ks)) <= Len(t) /\ SubSeq(t, 1, Len(Head(ks))) = Head(ks)
          THEN <<Head(ks)>> ELSE <<>>)
         \o SubstringMatches_ByPrefix(Tail(ks), token_set)

\* faulty variant of lines 77-83 (sensitivity of C6): the break is missing,
\* one append per token that contains the keyword
RECURSIVE SubstringMatches_NoBreak(_, _)
SubstringMatches_NoBreak(ks, token_set) ==
    IF ks = <<>> THEN <<>>
    ELSE [n \in 1..Cardinality({t \in token_set : StrContains(t, Head(ks))}) |-> Head(ks)]
         \o SubstringMatches_NoBreak(Tail(ks), token_set)

\* lines 77-83: one append per keyword, at the first token that contains it
RECURSIVE SubstringMatches(_, _)
SubstringMatches(ks, token_set) ==
    IF ks = <<>> THEN <<>>
    ELSE (IF \E t \in token_set : StrContains(t, Head(ks))
          THEN <<Head(ks)>> ELSE <<>>)
         \o SubstringMatches(Tail(ks), token_set)

extract_keywords_from_text(t, keywords, substring) ==
    LET tokens == tokenize(t)
    IN  IF tokens = <<>> THEN <<>>
        ELSE LET token_set == Range(tokens)
                 ks        == NormalizedKeywords(keywords)
             IN  IF ~substring
                 THEN WholeWordMatches(ks, token_set)
                 ELSE SubstringMatches(ks, token_set)

---------------------------------------------------------------------------
(* process_sheet *)

DUTCH_STOPWORDS ==
    {
      <<"d", "e">>, <<"h", "e", "t">>, <<"e", "n">>, <<"e", "e", "n">>,
      <<"i", "n">>, <<"v", "a", "n">>, <<"m", "e", "t">>, <<"o", "p">>,
      <<"t", "e">>, <<"d", "a", "t">>, <<"d", "i", "e">>, <<"i", "s">>,
      <<"w", "a", "s">>, <<"b", "i", "j">>, <<"a", "l", "s">>, <<"m", "a", "a", "r">>,
      <<"o", "o", "k">>, <<"n", "i", "e", "t">>, <<"w", "e", "l">>, <<"o", "m">>,
      <<"v", "o", "o", "r">>, <<"n", "a", "a", "r">>, <<"u", "i", "t">>, <<"a", "a", "n">>,
      <<"d", "o", "o", "r">>, <<"t", "o", "t">>, <<"o", "v", "e", "r">>, <<"o", "n", "d", "e", "r">>,
      <<"h", "i", "j">>, <<"z", "i", "j">>, <<"z", "e">>, <<"h", "u", "n">>,
      <<"z", "i", "j", "n">>, <<"h", "a", "a", "r">>, <<"w", "e">>, <<"w", "i", "j">>,
      <<"j", "i", "j">>, <<"j", "e">>, <<"u">>, <<"i", "k">>
    }

\* r[column] of a record of df.iterrows(): the cell under the column's name
Cell(table, r, column) ==
    r[CHOOSE n \in 1..Len(table.columns) : table.columns[n] = column]

\* faulty variant of line 93 (sensitivity of C8): `in` instead of `not in`
MissingColumns_Inverted(table, id_col, txt_col) ==
    SelectSeq(<<id_col, txt_col>>, LAMBDA c : c \in Range(table.columns))

\* line 93: [c for c in [patient_id_column, text_column] if c not in df.columns]
MissingColumns(table, id_col, txt_col) ==
    SelectSeq(<<id_col, txt_col>>, LAMBDA c : c \notin Range(table.columns))

\* line 97: [kw.strip() for kw in medical_keywords if kw and kw.strip()]
RECURSIVE StrippedKeywords(_)
StrippedKeywords(keywords) ==
    IF keywords = <<>> THEN <<>>
    ELSE IF Truthy(Head(keywords))
         THEN <<strip(Head(keywords))>> \o StrippedKeywords(Tail(keywords))
         ELSE StrippedKeywords(Tail(keywords))

\* a Python dict keeps its keys in insertion order; d[k] = v on a key the
\* dict holds replaces the value in place
DictKeys(d) == [n \in 1..Len(d) |-> d[n].k]

DictHas(d, key) == \E n \in 1..Len(d) : d[n].k = key

DictGet(d, key) == d[CHOOSE n \in 1..Len(d) : d[n].k = key].v

DictSet(d, key, val) ==
    IF DictHas(d, key)
    THEN [n \in 1..Len(d) |-> IF d[n].k = key THEN [k |-> key, v |-> val] ELSE d[n]]
    ELSE Append(d, [k |-> key, v |-> val])

\* int(kw in matched)
Flag(kw, matched) == IF kw \in Range(matched) THEN 1 ELSE 0

\* lines 110-111: for kw in kws: row[kw] = int(kw in matched)
RECURSIVE SetFlags(_, _, _)
SetFlags(row, ks, matched) ==
    IF ks = <<>> THEN row
    ELSE SetFlags(DictSet(row, Head(ks), Flag(Head(ks), matched)), Tail(ks), matched)

\* lines 109-111
BuildRow(id_col, pid, ks, matched) ==
    SetFlags(<<[k |-> id_col, v |-> pid]>>, ks, matched)

\* line 105: text if isinstance(text, str) else ""
TextOrEmpty(cell) == IF cell.isStr THEN cell ELSE Str(<<>>)

\* faulty variant of line 115 (sensitivity of C7): the stopword filter is
\* missing
WordcloudTokens_Unfiltered(t) == tokenize(t)

\* line 115: [t for t in tokenize(text) if t not in DUTCH_STOPWORDS]
WordcloudTokens(t) ==
    SelectSeq(tokenize(t), LAMBDA tok : tok \notin DUTCH_STOPWORDS)

\* pd.DataFrame(rows) of a list of dicts: one row per dict, the columns are
\* the dicts' keys in order of first appearance
RECURSIVE FrameColumns(_, _)
FrameColumns(rs, seen) ==
    IF rs = <<>> THEN seen
    ELSE LET new == SelectSeq(DictKeys(Head(rs)), LAMBDA c : c \notin Range(seen))
         IN  FrameColumns(Tail(rs), seen \o new)

DataFrame(rs) == [columns |-> FrameColumns(rs, <<>>), data |-> rs]

\* DataFrame.empty: an axis of length 0
FrameEmpty(frame) == Len(frame.data) = 0 \/ Len(frame.columns) = 0

\* faulty variant of lines 118-121 (sensitivity of C2): a frame without
\* keyword columns is taken for an empty one
BuildResults_KeywordlessIsEmpty(rs, id_col, ks) ==
    LET results == DataFrame(rs)
    IN  IF FrameEmpty(results) \/ Len(results.columns) = 1
        THEN [columns |-> <<id_col>> \o ks, data |-> <<>>]
        ELSE results

\* lines 118-121
BuildResults(rs, id_col, ks) ==
    LET results == DataFrame(rs)
    IN  IF FrameEmpty(results)
        THEN [columns |-> <<id_col>> \o ks, data |-> <<>>]
        ELSE results

---------------------------------------------------------------------------
(* Inputs *)

\* all sequences over S of length at most n
RECURSIVE SeqsUpTo(_, _)
SeqsUpTo(S, n) ==
    IF n = 0 THEN {<<>>}
    ELSE LET shorter == SeqsUpTo(S, n - 1)
         IN  shorter \cup {Append(s, x) : s \in {t \in shorter : Len(t) = n - 1}, x \in S}

TokMaxLen == 3
ExtMaxLen == 4
ExtMaxKws == 2
MaxRecords == 2
MaxKws == 2

\* tokenize: letters of both cases, a digit, the underscore, two separators
TokAlphabet == {"a", "B", "1", "_", " ", ","}

TokTexts == {Str(s) : s \in SeqsUpTo(TokAlphabet, TokMaxLen)} \cup {NaN}

\* extract_keywords_from_text: texts of one or more tokens over a, b
ExtAlphabet == {"a", "B", " "}

ExtTexts == {Str(s) : s \in SeqsUpTo(ExtAlphabet, ExtMaxLen)} \cup {NaN}

ExtKeywordPool == {<<"a">>, <<" ", "A", " ">>, <<"a", "b">>, <<>>, <<" ">>}

ExtKeywordLists == SeqsUpTo(ExtKeywordPool, ExtMaxKws)

\* process_sheet: the column names, the cells and the keywords of a call
IdColumn == <<"i", "d">>

TextColumn == <<"t", "x", "t">>

IdValues == {1, 7}

TextCells ==
    { NaN,
      Str(<<"P", "i", "j", "n", ",", " ", "d", "e", " ", "p", "i", "j", "n">>),
      Str(<<"p", "i", "j", "n", "s", "t", "i", "l", "l", "i", "n", "g">>) }

KeywordPool ==
    { <<"P", "i", "j", "n">>, <<" ", "p", "i", "j", "n">>, <<" ">>, IdColumn }

KeywordLists == SeqsUpTo(KeywordPool, MaxKws)

\* a table with both columns, and the same table read from a sheet that
\* lacks one of them
FullTables ==
    { [columns |-> <<IdColumn, TextColumn>>, records |-> rs] :
        rs \in SeqsUpTo(IdValues \X TextCells, MaxRecords) }

DropColumn(table, n) ==
    [columns |-> <<table.columns[3 - n]>>,
     records |-> [m \in 1..Len(table.records) |-> <<table.records[m][3 - n]>>]]

Tables == FullTables \cup {DropColumn(tb, n) : tb \in FullTables, n \in {1, 2}}

NoTable == [columns |-> <<>>, records |-> <<>>]

NoReturn == [kind |-> "none"]

---------------------------------------------------------------------------
(* One call of tokenize *)

InitTokenize ==
    /\ pc = "tokenize"
    /\ text \in TokTexts
    /\ medical_keywords = <<>>
    /\ use_substring = FALSE
    /\ df = NoTable
    /\ patient_id_column = <<>>
    /\ text_column = <<>>
    /\ i = 0
    /\ kws = <<>>
    /\ rows = <<>>
    /\ all_words = <<>>
    /\ ret = NoReturn

CallTokenize ==
    /\ pc = "tokenize"
    /\ pc' = "done"
    /\ ret' = [kind |-> "return", value |-> tokenize(text)]
    /\ UNCHANGED <<text, medical_keywords, use_substring, df, patient_id_column,
                   text_column, i, kws, rows, all_words>>

NextTokenize == CallTokenize

SpecTokenize == InitTokenize /\ [][NextTokenize]_vars

---------------------------------------------------------------------------
(* One call of extract_keywords_from_text *)

InitExtract ==
    /\ pc = "extract"
    /\ text \in ExtTexts
    /\ medical_keywords \in ExtKeywordLists
    /\ use_substring \in BOOLEAN
    /\ df = NoTable
    /\ patient_id_column = <<>>
    /\ text_column = <<>>
    /\ i = 0
    /\ kws = <<>>
    /\ rows = <<>>
    /\ all_words = <<>>
    /\ ret = NoReturn

CallExtract ==
    /\ pc = "extract"
    /\ pc' = "done"
    /\ ret' = [kind |-> "return",
               value |-> extract_keywords_from_text(text, medical_keywords, use_substring)]
    /\ UNCHANGED <<text, medical_keywords, use_substring, df, patient_id_column,
                   text_column, i, kws, rows, all_words>>

NextExtract == CallExtract

SpecExtract == InitExtract /\ [][NextExtract]_vars

---------------------------------------------------------------------------
(* One call of process_sheet, from the loaded table on (line 89) *)

Init ==
    /\ pc = "check"
    /\ text = NaN
    /\ medical_keywords \in KeywordLists
    /\ use_substring \in BOOLEAN
    /\ df \in Tables
    /\ patient_id_column = IdColumn
    /\ text_column = TextColumn
    /\ i = 0
    /\ kws = <<>>
    /\ rows = <<>>
    /\ all_words = <<>>
    /\ ret = NoReturn

\* lines 93-95: a missing column raises before anything else is done
RaiseMissing ==
    /\ pc = "check"
    /\ MissingColumns(df, patient_id_column, text_column) # <<>>
    /\ pc' = "raised"
    /\ ret' = [kind      |-> "ValueError",
               missing   |-> MissingColumns(df, patient_id_column, text_column),
               available |-> df.columns]
    /\ UNCHANGED <<text, medical_keywords, use_substring, df, patient_id_column,
                   text_column, i, kws, rows, all_words>>

\* lines 93-100: both columns are there; the locals are set up
Setup ==
    /\ pc = "check"
    /\ MissingColumns(df, patient_id_column, text_column) = <<>>
    /\ pc' = "loop"
    /\ kws' = StrippedKeywords(medical_keywords)
    /\ rows' = <<>>
    /\ all_words' = <<>>
    /\ i' = 1
    /\ UNCHANGED <<text, medical_keywords, use_substring, df, patient_id_column,
                   text_column, ret>>

\* lines 102-116: one turn of the loop over df.iterrows()
LoopRow ==
    /\ pc = "loop"
    /\ i <= Len(df.records)
    /\ LET r       == df.records[i]
           pid     == Cell(df, r, patient_id_column)
           txt     == TextOrEmpty(Cell(df, r, text_column))
           matched == extract_keywords_from_text(txt, kws, use_substring)
       IN  /\ text' = txt
           /\ rows' = Append(rows, BuildRow(patient_id_column, pid, kws, matched))
           /\ all_words' = all_words \o WordcloudTokens(txt)
    /\ i' = i + 1
    /\ UNCHANGED <<pc, medical_keywords, use_substring, df, patient_id_column,
                   text_column, kws, ret>>

\* lines 118-123: the loop is over
Return ==
    /\ pc = "loop"
    /\ i > Len(df.records)
    /\ pc' = "done"
    /\ ret' = [kind      |-> "return",
               results   |-> BuildResults(rows, patient_id_column, kws),
               all_words |-> all_words]
    /\ UNCHANGED <<text, medical_keywords, use_substring, df, patient_id_column,
                   text_column, i, kws, rows, all_words>>

Next == RaiseMissing \/ Setup \/ LoopRow \/ Return

Spec == Init /\ [][Next]_vars

---------------------------------------------------------------------------
(* Vocabulary of the claims *)

IsLetterOrDigit(c) == c \in Letters \cup Digits

\* the positions where a maximal run of letters and digits of s starts
RunStarts(s) ==
    {a \in 1..Len(s) : IsLetterOrDigit(s[a]) /\ (a = 1 \/ ~IsLetterOrDigit(s[a - 1]))}

\* the last position of the maximal run that starts at a
RunEnd(s, a) ==
    CHOOSE b \in a..Len(s) :
        /\ \A n \in a..b : IsLetterOrDigit(s[n])
        /\ b = Len(s) \/ ~IsLetterOrDigit(s[b + 1])

\* toks is, left to right, the maximal runs of letters and digits of s
IsLetterDigitRuns(toks, s) ==
    /\ Len(toks) = Cardinality(RunStarts(s))
    /\ \A a \in RunStarts(s) :
          toks[Cardinality({x \in RunStarts(s) : x <= a})] = SubSeq(s, a, RunEnd(s, a))

\* a keyword as the specification normalizes it: trimmed and lowercased
Normalized(kw) == lower(strip(kw))

\* k occurs in t as a contiguous piece
IsPieceOf(k, t) ==
    \E a \in 1..(Len(t) + 1) : \E b \in (a - 1)..Len(t) : SubSeq(t, a, b) = k

\* the normalized keyword k is matched in a text with these tokens
IsMatched(k, tokens, substring) ==
    IF substring
    THEN \E n \in 1..Len(tokens) : IsPieceOf(k, tokens[n])
    ELSE \E n \in 1..Len(tokens) : tokens[n] = k

Count(s, x) == Cardinality({n \in 1..Len(s) : s[n] = x})

\* the text of record n of the table as the loop reads it
RecordText(n) == TextOrEmpty(Cell(df, df.records[n], text_column))

RecordId(n) == Cell(df, df.records[n], patient_id_column)

ColumnsPresent ==
    {patient_id_column, text_column} \subseteq Range(df.columns)

\* the tokens of records 1..n, in order
RECURSIVE TokensUpTo(_)
TokensUpTo(n) ==
    IF n = 0 THEN <<>> ELSE TokensUpTo(n - 1) \o tokenize(RecordText(n))

---------------------------------------------------------------------------
(* Claims *)

\* C1: in process_sheet, for every record and every supplied keyword that is
\* non-empty after trimming, the flag in that keyword's column is 1 if the
\* normalized keyword is matched in the record's text under the active mode
\* and 0 otherwise ("Pain" gets 1 on a text with the token "pain").
C1_FlagOfNormalizedKeyword ==
    pc \in {"loop", "done"} =>
        \A n \in 1..Len(rows) : \A m \in 1..Len(medical_keywords) :
            LET kw == medical_keywords[m]
            IN  strip(kw) # <<>> =>
                  /\ DictHas(rows[n], strip(kw))
                  /\ DictGet(rows[n], strip(kw)) =
                        IF IsMatched(Normalized(kw), tokenize(RecordText(n)), use_substring)
                        THEN 1 ELSE 0

\* C2: for a table of N records with both columns, process_sheet returns a
\* result table of exactly N rows, row n built from record n, for every
\* keyword list (an empty one and one of blank entries included).
C2_OneRowPerRecord ==
    /\ pc = "loop" => Len(rows) = i - 1
    /\ pc = "done" =>
          /\ ret.kind = "return"
          /\ Len(ret.results.data) = Len(df.records)
          /\ \A n \in 1..Len(df.records) :
                ret.results.data[n] =
                    BuildRow(patient_id_column, RecordId(n), kws,
                             extract_keywords_from_text(RecordText(n), kws, use_substring))

C2_Witness ==
    /\ pc = "done"
    /\ Len(df.records) = 2
    /\ medical_keywords # <<>>
    /\ kws = <<>>
    /\ Len(ret.results.data) = 2

\* C3: tokenize returns, left to right, exactly the maximal runs of letters
\* and digits of the lowercased text; every other character, the underscore
\* included, separates and is in no token; a non-string gives no token.
C3_TokensAreLetterDigitRuns ==
    pc = "done" =>
        IF text.isStr
        THEN IsLetterDigitRuns(ret.value, lower(text.chars))
        ELSE ret.value = <<>>

\* C4: in whole-word mode a normalized non-empty keyword is in the result of
\* extract_keywords_from_text iff it equals some token of the text; a proper
\* substring of a token does not match and repeated tokens change nothing.
C4_WholeWordIffEqualsToken ==
    (pc = "done" /\ ~use_substring) =>
        /\ \A m \in 1..Len(medical_keywords) :
              LET k == Normalized(medical_keywords[m])
              IN  k # <<>> =>
                    (k \in Range(ret.value) <=> k \in Range(tokenize(text)))
        /\ Range(ret.value) \subseteq
              {Normalized(medical_keywords[m]) : m \in 1..Len(medical_keywords)}

C4_Witness ==
    /\ pc = "done"
    /\ ~use_substring
    /\ \E m \in 1..Len(medical_keywords) :
          LET k == Normalized(medical_keywords[m])
          IN  /\ k # <<>>
              /\ k \notin Range(ret.value)
              /\ \E t \in Range(tokenize(text)) : IsPieceOf(k, t) /\ t # k
    /\ \E m \in 1..Len(medical_keywords) :
          /\ Normalized(medical_keywords[m]) \in Range(ret.value)
          /\ Normalized(medical_keywords[m]) \notin Range(findall_w(text.chars, 1))

\* C5: in substring mode a normalized non-empty keyword is in the result iff
\* it is a contiguous substring of at least one token; a keyword that is
\* empty after trimming is never reported; a text without tokens gives an
\* empty result.
C5_SubstringIffInsideToken ==
    (pc = "done" /\ use_substring) =>
        /\ \A m \in 1..Len(medical_keywords) :
              LET k == Normalized(medical_keywords[m])
              IN  k # <<>> =>
                    (k \in Range(ret.value) <=>
                        \E t \in Range(tokenize(text)) : IsPieceOf(k, t))
        /\ <<>> \notin Range(ret.value)
        /\ tokenize(text) = <<>> => ret.value = <<>>

C5_Witness ==
    /\ pc = "done"
    /\ use_substring
    /\ \E m \in 1..Len(medical_keywords) : strip(medical_keywords[m]) = <<>>
    /\ \E k \in Range(ret.value) :
          /\ k \notin Range(tokenize(text))
          /\ \E t \in Range(tokenize(text)) :
                IsPieceOf(k, t) /\ SubSeq(t, 1, Len(k)) # k

\* C6 as stated: the result of extract_keywords_from_text holds each distinct
\* normalized keyword at most once, in both modes, also when entries of the
\* list normalize to the same keyword (" Pain " and "pain").
C6_NoKeywordTwice ==
    pc = "done" => \A k \in Range(ret.value) : Count(ret.value, k) = 1

\* C6 as amended: the result holds a normalized keyword at most once for each
\* entry of the keyword list that normalizes to it, in both modes; a keyword
\* the list holds once is in the result at most once, also when it is a
\* substring of several tokens.
C6_OncePerListEntry ==
    pc = "done" =>
        \A k \in Range(ret.value) :
            Count(ret.value, k) <=
                Cardinality({m \in 1..Len(medical_keywords) :
                               /\ strip(medical_keywords[m]) # <<>>
                               /\ Normalized(medical_keywords[m]) = k})

C6_Witness ==
    /\ pc = "done"
    /\ use_substring
    /\ \E k \in Range(ret.value) :
          /\ Count(ret.value, k) = 1
          /\ Cardinality({t \in Range(tokenize(text)) : IsPieceOf(k, t)}) >= 2

\* C7: the word list of process_sheet is the concatenation, over the records
\* in input order, of each record's tokens with every occurrence of a
\* stopword removed: no stopword is in it, every occurrence of every other
\* token is kept in order, and a non-string text contributes nothing.
C7_WordsAreTokensWithoutStopwords ==
    /\ pc = "loop" =>
          all_words = SelectSeq(TokensUpTo(i - 1), LAMBDA t : t \notin DUTCH_STOPWORDS)
    /\ pc = "done" =>
          /\ ret.all_words =
                SelectSeq(TokensUpTo(Len(df.records)), LAMBDA t : t \notin DUTCH_STOPWORDS)
          /\ \A n \in 1..Len(ret.all_words) : ret.all_words[n] \notin DUTCH_STOPWORDS
          /\ (\A n \in 1..Len(df.records) :
                 ~Cell(df, df.records[n], text_column).isStr) => ret.all_words = <<>>

C7_Witness ==
    /\ pc = "done"
    /\ Len(df.records) = 2
    /\ ~Cell(df, df.records[1], text_column).isStr
    /\ \E t \in Range(tokenize(RecordText(2))) : t \in DUTCH_STOPWORDS
    /\ \E t \in Range(ret.all_words) : Count(ret.all_words, t) = 2

\* C8: if the identifier or the text column is absent from the table's
\* schema, process_sheet raises an error naming the missing columns and
\* listing the available ones before any record is tokenized or matched: no
\* result table and no corpus is returned and no column is substituted.
C8_MissingColumnRaisesFirst ==
    ~ColumnsPresent =>
        /\ pc \in {"check", "raised"}
        /\ i = 0 /\ rows = <<>> /\ all_words = <<>>
        /\ pc = "check" => ret = NoReturn
        /\ pc = "raised" =>
              /\ ret.kind = "ValueError"
              /\ Range(ret.missing) =
                    {patient_id_column, text_column} \ Range(df.columns)
              /\ ret.available = df.columns
              /\ ~ENABLED Next

C8_Witness ==
    /\ pc = "raised"
    /\ Len(df.records) = 2
    /\ text_column \notin Range(df.columns)
    /\ ret.kind = "ValueError"

\* C9: in every row of the result table of process_sheet the value in the
\* identifier column is the identifier of the corresponding input record,
\* for every keyword list, a keyword equal to the identifier column's name
\* included.
C9_IdentifierPassedThrough ==
    pc = "done" =>
        \A n \in 1..Len(ret.results.data) :
            DictGet(ret.results.data[n], patient_id_column) = RecordId(n)

\* C10: for a table of zero records process_sheet returns a result table of
\* zero rows whose columns are the identifier column followed by one column
\* per normalized (trimmed, lowercased) non-empty keyword in supplied order,
\* and an empty corpus.
C10_EmptyTableColumns ==
    (pc = "done" /\ df.records = <<>>) =>
        /\ ret.results.data = <<>>
        /\ ret.results.columns =
              <<patient_id_column>> \o
              SelectSeq([m \in 1..Len(medical_keywords) |-> Normalized(medical_keywords[m])],
                        LAMBDA k : k # <<>>)
        /\ ret.all_words = <<>>

====
